---- MODULE Spec2Model ----
(***************************************************************************)
(* Batched linear-algebra kernels of elastica/_linalg.py:                  *)
(*   levi_civita_tensor (behind functools.lru_cache(maxsize=1)),           *)
(*   _batch_matvec, _batch_matmul, _batch_cross (numpy.einsum calls).      *)
(* Arrays are records [shape, data]; data holds the entries in row-major   *)
(* order (integer-valued entries stand for the float entries).             *)
(***************************************************************************)
EXTENDS Integers, Sequences, FiniteSets, TLC

VARIABLES
    cache,      \* the entries of levi_civita_tensor's lru_cache
    call,       \* the call the sequential caller made last, with its outcome
    computed,   \* whether that call ran the body of levi_civita_tensor
    first,      \* history: the first tensor returned for each dimension
    again,      \* history: the last call rebuilt a dimension built before
    tpc,        \* each thread's position in its levi_civita_tensor call
    targ,       \* the dimension each thread asked for
    teps,       \* each thread's local epsilon
    ttodo,      \* the permutations each thread's loop has still to visit
    tret,       \* what each thread's call returned
    overlapped  \* history: another call was being built when the thread's ended

vars == <<cache, call, computed, first, again, tpc, targ, teps, ttodo, tret,
          overlapped>>
histvars == <<first, again>>
thrvars == <<tpc, targ, teps, ttodo, tret, overlapped>>

\* ---------------------------------------------------------------- bounds
\* largest dimension requested from levi_civita_tensor / _batch_cross
MaxDim == 4
\* largest axis size of the operands of _batch_matvec / _batch_matmul
MaxAxis == 3
\* largest block size N
MaxBlock == 2
\* entries of the input batches lie in -MaxVal..MaxVal
MaxVal == 1
\* largest dimension on which the composition of the two products is compared
MaxComposeDim == 2
\* largest axis size of the operands whose shapes alone are varied
MaxShape == 5
\* largest dimension the concurrent callers request
MaxConcDim == 2
\* number of concurrent callers
NumThreads == 2

\* capacity of the memoisation cache: @functools.lru_cache(maxsize=1)
maxsize == 1

Dims == 1..MaxDim
Blocks == 1..MaxBlock
Axes == 1..MaxAxis
Vals == (0 - MaxVal)..MaxVal
ConcDims == 1..MaxConcDim
Threads == 1..NumThreads

\* ---------------------------------------------------------------- arrays
\* an array is [shape, data]: data holds the entries in row-major (C) order,
\* the order numpy stores them in; index tuples are 0-based
\* a function on 1..n as a stored sequence (so that its entries are
\* evaluated once)
Stored(f) == f \o <<>>

RECURSIVE Size(_)
Size(shape) == IF shape = <<>> THEN 1 ELSE Head(shape) * Size(Tail(shape))

\* the stride of every axis, in entries
Strides(shape) ==
    Stored([a \in 1..Len(shape) |-> Size(SubSeq(shape, a + 1, Len(shape)))])

RECURSIVE Offset(_, _, _, _)
Offset(shape, idx, a, acc) ==
    IF a > Len(shape) THEN acc
    ELSE Offset(shape, idx, a + 1, acc * shape[a] + idx[a])

\* arr[idx]
At(arr, idx) == arr.data[Offset(arr.shape, idx, 1, 0) + 1]

\* the index tuple of the n-th entry (n from 0)
Unravel(shape, n) ==
    LET st == Strides(shape)
    IN Stored([a \in 1..Len(shape) |-> (n \div st[a]) % shape[a]])

RECURSIVE SeqMax(_)
SeqMax(s) == IF s = <<>> THEN 0
             ELSE LET m == SeqMax(Tail(s)) IN IF Head(s) > m THEN Head(s) ELSE m

\* all index tuples of an array of the given shape
Indices(shape) ==
    {idx \in [1..Len(shape) -> 0..(SeqMax(shape) - 1)] :
        \A a \in 1..Len(shape) : idx[a] < shape[a]}

\* numpy.zeros(shape)
zeros(shape) == [shape |-> shape, data |-> Stored([n \in 1..Size(shape) |-> 0])]

\* the value a failed call leaves in place of a result
NoArray == [shape |-> <<>>, data |-> <<>>]

\* input batches of a shape: the constant batches, the batches with a single
\* entry 1 among zeros, and dense batches whose entries cycle through Vals
ConstBatch(shape, c) ==
    [shape |-> shape, data |-> Stored([n \in 1..Size(shape) |-> c])]
UnitBatch(shape, p, c) ==
    [shape |-> shape,
     data |-> Stored([n \in 1..Size(shape) |->
                  IF n = Offset(shape, p, 1, 0) + 1 THEN c ELSE 0])]
RECURSIVE Weighted(_, _)
Weighted(idx, a) == IF a > Len(idx) THEN 0 ELSE a * idx[a] + Weighted(idx, a + 1)
RampBatch(shape, c) ==
    [shape |-> shape,
     data |-> Stored([n \in 1..Size(shape) |->
                  ((Weighted(Unravel(shape, n - 1), 1) + c) % (2 * MaxVal + 1)) - MaxVal])]
DenseBatches(shape) == {RampBatch(shape, c) : c \in 0..(2 * MaxVal)}
Batches(shape) ==
    {ConstBatch(shape, c) : c \in Vals}
    \cup {UnitBatch(shape, p, 1) : p \in Indices(shape)}
    \cup DenseBatches(shape)

\* ---------------------------------------------------------------- einsum
\* every axis of every operand, as [label, size], operand after operand
RECURSIVE AxisList(_, _, _)
AxisList(subs, ops, n) ==
    IF n > Len(subs) THEN <<>>
    ELSE [a \in 1..Len(subs[n]) |-> [label |-> subs[n][a], size |-> ops[n].shape[a]]]
             \o AxisList(subs, ops, n + 1)

\* numpy accepts the operands when every operand has as many axes as its
\* subscripts and the sizes of each label agree up to broadcasting of size 1
EinsumValid(subs, ops) ==
    /\ \A n \in 1..Len(subs) : Len(subs[n]) = Len(ops[n].shape)
    /\ LET axes == AxisList(subs, ops, 1)
       IN \A a, b \in 1..Len(axes) :
             axes[a].label = axes[b].label =>
                 (axes[a].size = axes[b].size \/ axes[a].size = 1 \/ axes[b].size = 1)

\* the size of a label: the largest size an operand gives it
RECURSIVE LabelSize(_, _, _)
LabelSize(axes, l, a) ==
    IF a > Len(axes) THEN 0
    ELSE LET r == LabelSize(axes, l, a + 1)
         IN IF axes[a].label = l /\ axes[a].size > r THEN axes[a].size ELSE r

\* the labels of the axes that the output does not keep, each once
RECURSIVE InnerLabels(_, _, _)
InnerLabels(axes, seen, a) ==
    IF a > Len(axes) THEN <<>>
    ELSE IF \E q \in 1..Len(seen) : seen[q] = axes[a].label
         THEN InnerLabels(axes, seen, a + 1)
         ELSE <<axes[a].label>> \o InnerLabels(axes, seen \o <<axes[a].label>>, a + 1)

\* the step an operand takes in its data when label l advances by one: its
\* stride along the axis labelled l, 0 when it has no such axis or the axis
\* has size 1 (broadcast)
OpStride(sub, shape, l) ==
    IF \E a \in 1..Len(sub) : sub[a] = l /\ shape[a] # 1
    THEN Strides(shape)[CHOOSE a \in 1..Len(sub) : sub[a] = l]
    ELSE 0

RECURSIVE Dot(_, _, _)
Dot(x, y, q) == IF q > Len(x) THEN 0 ELSE x[q] * y[q] + Dot(x, y, q + 1)

RECURSIVE SumSeq(_, _)
SumSeq(s, n) == IF n > Len(s) THEN 0 ELSE s[n] + SumSeq(s, n + 1)

\* for every index tuple over the labels labs (of sizes shape), in row-major
\* order, the offset it gives in the data of an operand
OpOffsets(sub, opshape, labs, shape) ==
    LET step == Stored([q \in 1..Len(labs) |-> OpStride(sub, opshape, labs[q])])
        st == Strides(shape)
    IN Stored([n \in 1..Size(shape) |->
           Dot([q \in 1..Len(shape) |-> ((n - 1) \div st[q]) % shape[q]], step, 1)])

\* numpy.einsum(subscripts, operands...) for subscripts without repeated
\* labels inside one operand: out[o] = sum over the contracted labels of the
\* product of the operands' entries
EinsumOut(subs, out, ops) ==
    LET axes == AxisList(subs, ops, 1)
        inner == InnerLabels(axes, out, 1)
        oshape == Stored([q \in 1..Len(out) |-> LabelSize(axes, out[q], 1)])
        ishape == Stored([q \in 1..Len(inner) |-> LabelSize(axes, inner[q], 1)])
        \* where each operand stands for every output index and for every
        \* assignment of the contracted labels
        obase == Stored([n \in 1..Len(ops) |->
                            OpOffsets(subs[n], ops[n].shape, out, oshape)])
        ibase == Stored([n \in 1..Len(ops) |->
                            OpOffsets(subs[n], ops[n].shape, inner, ishape)])
        isize == Size(ishape)
        entry(n, o, m) == ops[n].data[obase[n][o] + ibase[n][m] + 1]
        term(o, m) ==
            IF Len(ops) = 2 THEN entry(1, o, m) * entry(2, o, m)
            ELSE entry(1, o, m) * entry(2, o, m) * entry(3, o, m)
    IN [shape |-> oshape,
        data |-> Stored([o \in 1..Size(oshape) |->
                     SumSeq([m \in 1..isize |-> term(o, m)], 1)])]

einsum(subs, out, ops) ==
    IF EinsumValid(subs, ops)
    THEN [status |-> "ok", out |-> EinsumOut(subs, out, ops)]
    ELSE [status |-> "ValueError", out |-> NoArray]

\* ---------------------------------------------------------------- kernels
\* variant: the subscripts "jik,jk->ik" (the matrices transposed)
_batch_matvec_transposed(matrix_collection, vector_collection) ==
    einsum(<<<<"j", "i", "k">>, <<"j", "k">>>>, <<"i", "k">>,
           <<matrix_collection, vector_collection>>)
\* np.einsum("ijk,jk->ik", matrix_collection, vector_collection)
_batch_matvec(matrix_collection, vector_collection) ==
    einsum(<<<<"i", "j", "k">>, <<"j", "k">>>>, <<"i", "k">>,
           <<matrix_collection, vector_collection>>)

\* variant: the two operands in the other order
_batch_matmul_reversed(first_matrix_collection, second_matrix_collection) ==
    einsum(<<<<"i", "j", "k">>, <<"j", "l", "k">>>>, <<"i", "l", "k">>,
           <<second_matrix_collection, first_matrix_collection>>)
\* variant: the subscripts "ijk,ljk->ilk" (the second matrices transposed)
_batch_matmul_outer(first_matrix_collection, second_matrix_collection) ==
    einsum(<<<<"i", "j", "k">>, <<"l", "j", "k">>>>, <<"i", "l", "k">>,
           <<first_matrix_collection, second_matrix_collection>>)
\* np.einsum("ijk,jlk->ilk", first_matrix_collection, second_matrix_collection)
_batch_matmul(first_matrix_collection, second_matrix_collection) ==
    einsum(<<<<"i", "j", "k">>, <<"j", "l", "k">>>>, <<"i", "l", "k">>,
           <<first_matrix_collection, second_matrix_collection>>)

\* variant: the subscripts "ijk,kl,jl->il" (the two vectors exchanged)
cross_einsum_swapped(epsilon, first_vector_collection, second_vector_collection) ==
    einsum(<<<<"i", "j", "k">>, <<"k", "l">>, <<"j", "l">>>>, <<"i", "l">>,
           <<epsilon, first_vector_collection, second_vector_collection>>)
\* np.einsum("ijk,jl,kl->il", epsilon, first, second) of _batch_cross
cross_einsum(epsilon, first_vector_collection, second_vector_collection) ==
    einsum(<<<<"i", "j", "k">>, <<"j", "l">>, <<"k", "l">>>>, <<"i", "l">>,
           <<epsilon, first_vector_collection, second_vector_collection>>)

\* ---------------------------------------------------------------- tensor
\* range(dim)
range(dim) == [a \in 1..dim |-> a - 1]

\* itertools.permutations(pool, len(pool)): every ordering of the pool, in
\* lexicographic order of positions
RECURSIVE permutations(_)
RECURSIVE PermsFrom(_, _)
PermsFrom(pool, i) ==
    IF i > Len(pool) THEN <<>>
    ELSE LET rest == SubSeq(pool, 1, i - 1) \o SubSeq(pool, i + 1, Len(pool))
             sub == permutations(rest)
         IN [n \in 1..Len(sub) |-> <<pool[i]>> \o sub[n]] \o PermsFrom(pool, i + 1)
permutations(pool) == IF Len(pool) = 0 THEN << <<>> >> ELSE PermsFrom(pool, 1)

\* utils.perm_parity: the sign of a permutation of 0..d-1 (+1 even, -1 odd)
perm_parity(lst) ==
    LET inv == {pr \in (1..Len(lst)) \X (1..Len(lst)) :
                   pr[1] < pr[2] /\ lst[pr[1]] > lst[pr[2]]}
    IN IF Cardinality(inv) % 2 = 0 THEN 1 ELSE 0 - 1

\* variant: every permutation gets +1
SetEntryNoParity(epsilon, index_tup) ==
    [epsilon EXCEPT !.data[Offset(epsilon.shape, index_tup, 1, 0) + 1] = 1]
\* one pass of the loop body: epsilon[index_tup] = perm_parity(list(index_tup))
SetEntry(epsilon, index_tup) ==
    [epsilon EXCEPT !.data[Offset(epsilon.shape, index_tup, 1, 0) + 1] =
                        perm_parity(index_tup)]

\* for index_tup in permutations(range(dim), dim): ...
RECURSIVE FillEpsilon(_, _, _)
FillEpsilon(epsilon, perms, n) ==
    IF n > Len(perms) THEN epsilon
    ELSE FillEpsilon(SetEntry(epsilon, perms[n]), perms, n + 1)

\* the (dim,)*dim zero array the function starts from
EpsilonInit(dim) == zeros([a \in 1..dim |-> dim])

\* the body of levi_civita_tensor (what runs on a cache miss)
levi_civita_tensor(dim) == FillEpsilon(EpsilonInit(dim), permutations(range(dim)), 1)

\* what the body returns for each dimension (a table, so that the build of a
\* dimension is evaluated once)
Epsilon == [dim \in Dims |-> levi_civita_tensor(dim)]

\* ---------------------------------------------------------------- lru_cache
\* the cache is the sequence of its entries [key, result], oldest first
lru_cache_hit(c, key) == \E n \in 1..Len(c) : c[n].key = key

lru_cache_get(c, key) == c[CHOOSE n \in 1..Len(c) : c[n].key = key].result

\* a hit makes the entry the most recently used one
lru_cache_touch(c, key) ==
    LET n == CHOOSE m \in 1..Len(c) : c[m].key = key
    IN SubSeq(c, 1, n - 1) \o SubSeq(c, n + 1, Len(c)) \o <<c[n]>>

\* variant: nothing is ever evicted
lru_cache_put_unbounded(c, key, result) ==
    IF lru_cache_hit(c, key) THEN c ELSE c \o <<[key |-> key, result |-> result]>>
\* variant: the new result is stored under the evicted key
lru_cache_put_stale_key(c, key, result) ==
    IF lru_cache_hit(c, key) THEN c
    ELSE IF Len(c) >= maxsize THEN <<[key |-> c[1].key, result |-> result]>>
    ELSE c \o <<[key |-> key, result |-> result]>>
\* storing a result: nothing when the key is already there (another call
\* stored it meanwhile), else the oldest entry makes room when the cache is full
lru_cache_put(c, key, result) ==
    IF lru_cache_hit(c, key) THEN c
    ELSE IF Len(c) >= maxsize THEN Tail(c) \o <<[key |-> key, result |-> result]>>
    ELSE c \o <<[key |-> key, result |-> result]>>

\* a whole call of the decorated levi_civita_tensor made by one thread
cached_call(c, dim) ==
    IF lru_cache_hit(c, dim)
    THEN [result |-> lru_cache_get(c, dim), cache |-> lru_cache_touch(c, dim),
          computed |-> FALSE]
    ELSE LET epsilon == Epsilon[dim]
         IN [result |-> epsilon, cache |-> lru_cache_put(c, dim, epsilon),
             computed |-> TRUE]

\* ---------------------------------------------------------------- state
Idle == [op |-> "idle", args |-> <<>>, status |-> "ok", out |-> NoArray]

Init ==
    /\ cache = <<>>
    /\ call = Idle
    /\ computed = FALSE
    /\ first = [dim \in Dims |-> NoArray]
    /\ again = FALSE
    /\ tpc = [t \in Threads |-> "idle"]
    /\ targ = [t \in Threads |-> 0]
    /\ teps = [t \in Threads |-> NoArray]
    /\ ttodo = [t \in Threads |-> <<>>]
    /\ tret = [t \in Threads |-> NoArray]
    /\ overlapped = [t \in Threads |-> FALSE]

\* a direct call levi_civita_tensor(dim)
DoLeviCivita(dim) ==
    LET r == cached_call(cache, dim)
    IN /\ call' = [op |-> "levi_civita_tensor", args |-> <<dim>>,
                   status |-> "ok", out |-> r.result]
       /\ cache' = r.cache
       /\ computed' = r.computed
       /\ UNCHANGED thrvars

\* the dimension _batch_cross asks the tensor for
\* variant: the tensor is always asked for dimension 3
cross_dim_fixed(first_vector_collection) == 3
cross_dim(first_vector_collection) == first_vector_collection.shape[1]

\* _batch_cross(first_vector_collection, second_vector_collection): the
\* tensor is fetched for first_vector_collection.shape[0] before einsum runs
DoBatchCross(first_vector_collection, second_vector_collection) ==
    LET r == cached_call(cache, cross_dim(first_vector_collection))
        e == cross_einsum(r.result, first_vector_collection, second_vector_collection)
    IN /\ call' = [op |-> "_batch_cross",
                   args |-> <<first_vector_collection, second_vector_collection>>,
                   status |-> e.status, out |-> e.out]
       /\ cache' = r.cache
       /\ computed' = r.computed
       /\ UNCHANGED thrvars

\* the caller takes the result (or the exception) of the last call
Return ==
    /\ call.op # "idle"
    /\ call' = Idle
    /\ UNCHANGED <<cache, computed, first, again>>
    /\ UNCHANGED thrvars

\* ------------------------------------------- Spec: the tensor and the cross product
CallLeviCivita ==
    /\ call.op = "idle"
    /\ \E dim \in Dims : DoLeviCivita(dim) /\ UNCHANGED histvars

CallBatchCross ==
    /\ call.op = "idle"
    /\ \E dim \in Dims, N \in Blocks :
        \E u \in Batches(<<dim, N>>), v \in Batches(<<dim, N>>) :
            DoBatchCross(u, v) /\ UNCHANGED histvars

Next == CallLeviCivita \/ CallBatchCross \/ Return

Spec == Init /\ [][Next]_vars

\* ------------------------------------------- SpecCache: call sequences on the cache
\* the history of a call that asked the cache for dimension dim
Remember(dim) ==
    /\ first' = IF first[dim] = NoArray
                THEN [first EXCEPT ![dim] = cached_call(cache, dim).result]
                ELSE first
    /\ again' = (cached_call(cache, dim).computed /\ first[dim] # NoArray)

SeqLeviCivita ==
    /\ call.op = "idle"
    /\ \E dim \in Dims : DoLeviCivita(dim) /\ Remember(dim)

SeqBatchCross ==
    /\ call.op = "idle"
    /\ \E dim \in Dims :
        LET u == ConstBatch(<<dim, 1>>, MaxVal)
        IN DoBatchCross(u, u) /\ Remember(dim)

NextCache == SeqLeviCivita \/ SeqBatchCross \/ Return

SpecCache == Init /\ [][NextCache]_vars

\* ------------------------------------------- SpecMatvec: _batch_matvec
\* operands of the documented shapes (d,d,N) and (d,N), and all-ones operands
\* of every 3-axis and 2-axis shape
MatvecInputs ==
    UNION {Batches(<<d, d, N>>) \X Batches(<<d, N>>) : d \in Axes, N \in Blocks}
    \cup {<<ConstBatch(<<a, b, n>>, 1), ConstBatch(<<c, m>>, 1)>> :
              a \in 1..MaxShape, b \in 1..MaxShape, n \in 1..MaxShape,
              c \in 1..MaxShape, m \in 1..MaxShape}

DoBatchMatvec(matrix_collection, vector_collection) ==
    LET e == _batch_matvec(matrix_collection, vector_collection)
    IN /\ call' = [op |-> "_batch_matvec",
                   args |-> <<matrix_collection, vector_collection>>,
                   status |-> e.status, out |-> e.out]
       /\ UNCHANGED <<cache, computed, first, again>>
       /\ UNCHANGED thrvars

CallBatchMatvec ==
    /\ call.op = "idle"
    /\ \E in \in MatvecInputs : DoBatchMatvec(in[1], in[2])

NextMatvec == CallBatchMatvec \/ Return

SpecMatvec == Init /\ [][NextMatvec]_vars

\* ------------------------------------------- SpecMatmul: _batch_matmul
MatmulInputs ==
    UNION {Batches(<<d, d, N>>) \X Batches(<<d, d, N>>) : d \in Axes, N \in Blocks}

DoBatchMatmul(first_matrix_collection, second_matrix_collection) ==
    LET e == _batch_matmul(first_matrix_collection, second_matrix_collection)
    IN /\ call' = [op |-> "_batch_matmul",
                   args |-> <<first_matrix_collection, second_matrix_collection>>,
                   status |-> e.status, out |-> e.out]
       /\ UNCHANGED <<cache, computed, first, again>>
       /\ UNCHANGED thrvars

CallBatchMatmul ==
    /\ call.op = "idle"
    /\ \E in \in MatmulInputs : DoBatchMatmul(in[1], in[2])

NextMatmul == CallBatchMatmul \/ Return

SpecMatmul == Init /\ [][NextMatmul]_vars

\* ------------------------------------------- SpecConc: concurrent callers
\* Threads call levi_civita_tensor concurrently. The cache lookup and the
\* store of a result are atomic steps of the lru_cache wrapper; the body runs
\* between them on the thread's own epsilon, one loop pass per step.
Building(t) == \E s \in Threads : s # t /\ tpc[s] = "build"

\* the wrapper finds the key: the call returns the cached tensor
T_Hit(t) ==
    /\ tpc[t] = "idle"
    /\ \E dim \in ConcDims :
        /\ lru_cache_hit(cache, dim)
        /\ targ' = [targ EXCEPT ![t] = dim]
        /\ tret' = [tret EXCEPT ![t] = lru_cache_get(cache, dim)]
        /\ cache' = lru_cache_touch(cache, dim)
    /\ tpc' = [tpc EXCEPT ![t] = "done"]
    /\ overlapped' = [overlapped EXCEPT ![t] = Building(t)]
    /\ UNCHANGED <<teps, ttodo, call, computed, first, again>>

\* variant: the array is put in the cache before the loop has filled it
T_MissPublishEarly(t) ==
    /\ tpc[t] = "idle"
    /\ \E dim \in ConcDims :
        /\ ~lru_cache_hit(cache, dim)
        /\ targ' = [targ EXCEPT ![t] = dim]
        /\ teps' = [teps EXCEPT ![t] = EpsilonInit(dim)]
        /\ ttodo' = [ttodo EXCEPT ![t] = permutations(range(dim))]
        /\ cache' = lru_cache_put(cache, dim, EpsilonInit(dim))
    /\ tpc' = [tpc EXCEPT ![t] = "build"]
    /\ UNCHANGED <<tret, overlapped, call, computed, first, again>>
\* the wrapper misses: the body starts, epsilon = np.zeros((dim,) * dim)
T_Miss(t) ==
    /\ tpc[t] = "idle"
    /\ \E dim \in ConcDims :
        /\ ~lru_cache_hit(cache, dim)
        /\ targ' = [targ EXCEPT ![t] = dim]
        /\ teps' = [teps EXCEPT ![t] = EpsilonInit(dim)]
        /\ ttodo' = [ttodo EXCEPT ![t] = permutations(range(dim))]
    /\ tpc' = [tpc EXCEPT ![t] = "build"]
    /\ UNCHANGED <<cache, tret, overlapped, call, computed, first, again>>

\* one pass of the loop over the permutations
T_Step(t) ==
    /\ tpc[t] = "build"
    /\ ttodo[t] # <<>>
    /\ teps' = [teps EXCEPT ![t] = SetEntry(teps[t], Head(ttodo[t]))]
    /\ ttodo' = [ttodo EXCEPT ![t] = Tail(ttodo[t])]
    /\ UNCHANGED <<cache, tpc, targ, tret, overlapped, call, computed, first, again>>

\* return epsilon: the wrapper stores the result and the call returns it
T_Store(t) ==
    /\ tpc[t] = "build"
    /\ ttodo[t] = <<>>
    /\ cache' = lru_cache_put(cache, targ[t], teps[t])
    /\ tret' = [tret EXCEPT ![t] = teps[t]]
    /\ tpc' = [tpc EXCEPT ![t] = "done"]
    /\ overlapped' = [overlapped EXCEPT ![t] = Building(t)]
    /\ UNCHANGED <<targ, teps, ttodo, call, computed, first, again>>

\* the thread takes the result and is ready for its next call
T_Return(t) ==
    /\ tpc[t] = "done"
    /\ tpc' = [tpc EXCEPT ![t] = "idle"]
    /\ targ' = [targ EXCEPT ![t] = 0]
    /\ teps' = [teps EXCEPT ![t] = NoArray]
    /\ tret' = [tret EXCEPT ![t] = NoArray]
    /\ overlapped' = [overlapped EXCEPT ![t] = FALSE]
    /\ UNCHANGED <<cache, ttodo, call, computed, first, again>>

NextConc ==
    \E t \in Threads :
        T_Hit(t) \/ T_Miss(t) \/ T_Step(t) \/ T_Store(t) \/ T_Return(t)

SpecConc == Init /\ [][NextConc]_vars

\* ---------------------------------------------------------------- claims
RECURSIVE SumOver(_, _)
SumOver(S, f) == IF S = {} THEN 0
                 ELSE LET x == CHOOSE y \in S : TRUE IN f[x] + SumOver(S \ {x}, f)

Swap(idx, a, b) == [idx EXCEPT ![a] = idx[b], ![b] = idx[a]]
Repeats(idx) == \E a, b \in 1..Len(idx) : a < b /\ idx[a] = idx[b]
Cube(d) == [a \in 1..d |-> d]

\* t is the Levi-Civita tensor of dimension d: shape (d,)*d, 0 on tuples with a
\* repeated index, +1 on the identity, negated by every swap of two indices
\* (so +1/-1 on the permutations, by their sign)
IsLeviCivita(t, d) ==
    /\ t.shape = Cube(d)
    /\ Len(t.data) = Size(Cube(d))
    /\ At(t, range(d)) = 1
    /\ \A idx \in Indices(Cube(d)) :
          /\ Repeats(idx) => At(t, idx) = 0
          /\ ~Repeats(idx) => At(t, idx) \in {1, 0 - 1}
          /\ \A a, b \in 1..d : a < b => At(t, Swap(idx, a, b)) = 0 - At(t, idx)

\* C1: the tensor levi_civita_tensor(d) returns has shape (d,)*d, is 0 where two
\* indices coincide, is the permutation's sign elsewhere, and is negated by
\* swapping any two indices
LeviCivitaCorrect ==
    call.op = "levi_civita_tensor" => IsLeviCivita(call.out, call.args[1])

LeviCivitaWitness ==
    /\ call.op = "levi_civita_tensor"
    /\ call.args = <<3>>
    /\ At(call.out, <<1, 2, 0>>) = 1
    /\ At(call.out, <<0, 2, 1>>) = 0 - 1
    /\ At(call.out, <<0, 0, 1>>) = 0

\* C2: for d = 3, _batch_cross returns in every slot k the conventional cross
\* product of u[:,k] and v[:,k]; [1,0,0] x [0,1,0] = [0,0,1]
CrossIsConventional ==
    (call.op = "_batch_cross" /\ call.args[1].shape[1] = 3) =>
        LET u == call.args[1]
            v == call.args[2]
            N == call.args[1].shape[2]
        IN /\ call.status = "ok"
           /\ call.out.shape = <<3, N>>
           /\ \A k \in 0..(N - 1) :
                 /\ At(call.out, <<0, k>>) = At(u, <<1, k>>) * At(v, <<2, k>>) - At(u, <<2, k>>) * At(v, <<1, k>>)
                 /\ At(call.out, <<1, k>>) = At(u, <<2, k>>) * At(v, <<0, k>>) - At(u, <<0, k>>) * At(v, <<2, k>>)
                 /\ At(call.out, <<2, k>>) = At(u, <<0, k>>) * At(v, <<1, k>>) - At(u, <<1, k>>) * At(v, <<0, k>>)

CrossScenarioWitness ==
    /\ call.op = "_batch_cross"
    /\ call.args[1] = UnitBatch(<<3, 1>>, <<0, 0>>, 1)
    /\ call.args[2] = UnitBatch(<<3, 1>>, <<1, 0>>, 1)
    /\ call.status = "ok"
    /\ call.out = UnitBatch(<<3, 1>>, <<2, 0>>, 1)

\* C8 as claimed: _batch_cross succeeds for every dimension d >= 2 and returns
\* a (d,N) batch
CrossEveryDim ==
    (call.op = "_batch_cross" /\ call.args[1].shape[1] >= 2) =>
        (call.status = "ok" /\ call.out.shape = call.args[1].shape)

\* C8 amended: _batch_cross on two (d,N) batches fetches (and caches) the tensor
\* of dimension d; it succeeds exactly when d = 3, returning the (3,N)
\* contraction of u and v with that tensor, and for every other d einsum
\* rejects the d-axis tensor and the call raises ValueError without a result
CrossOnlyDim3 ==
    call.op = "_batch_cross" =>
        LET u == call.args[1]
            v == call.args[2]
            d == u.shape[1]
            N == u.shape[2]
            eps == cache[1].result
            pairs == (0..(d - 1)) \X (0..(d - 1))
        IN /\ Len(cache) = 1 /\ cache[1].key = d /\ eps.shape = Cube(d)
           /\ (call.status = "ok") <=> (d = 3)
           /\ call.status = "ok" =>
                 /\ call.out.shape = <<d, N>>
                 /\ \A i \in 0..(d - 1), k \in 0..(N - 1) :
                       At(call.out, <<i, k>>) =
                           SumOver(pairs, [jl \in pairs |->
                               At(eps, <<i, jl[1], jl[2]>>)
                                   * At(u, <<jl[1], k>>) * At(v, <<jl[2], k>>)])
           /\ call.status # "ok" => (call.status = "ValueError" /\ call.out = NoArray)

CrossDim2Witness ==
    /\ call.op = "_batch_cross"
    /\ call.args[1].shape = <<2, 2>>
    /\ call.status = "ValueError"
    /\ cache[1].key = 2

\* the dimension a call asks the cache for
Requested(c) == IF c.op = "levi_civita_tensor" THEN c.args[1] ELSE c.args[1].shape[1]

\* C6: the cache never holds more than one entry; a call runs the body exactly
\* when the cache is empty or holds another dimension; a call for the cached
\* dimension returns the cached tensor and leaves the cache alone; after every
\* call the only entry is the requested dimension's (the previous one is gone)
CacheSingleSlot ==
    [][/\ Len(cache) <= 1 /\ Len(cache') <= 1
       /\ (call.op = "idle" /\ call'.op # "idle") =>
             LET d == Requested(call')
                 hit == cache # <<>> /\ cache[1].key = d
             IN /\ computed' = ~hit
                /\ Len(cache') = 1 /\ cache'[1].key = d
                /\ hit => cache' = cache
                /\ (hit /\ call'.op = "levi_civita_tensor") => call'.out = cache[1].result
      ]_vars

CacheRebuildWitness ==
    /\ call.op = "_batch_cross"
    /\ again
    /\ computed

\* C7: every tensor levi_civita_tensor(d) returns is the (d,)*d tensor that the
\* first call for d returned, whatever was called in between and whether the
\* cache served it or the body rebuilt it; the cached entry is that tensor too
ReturnMatchesFirst ==
    /\ call.op = "levi_civita_tensor" =>
          /\ call.out.shape = Cube(call.args[1])
          /\ call.out = first[call.args[1]]
    /\ \A n \in 1..Len(cache) : cache[n].result = first[cache[n].key]

RebuiltSameWitness ==
    /\ call.op = "levi_civita_tensor"
    /\ call.args = <<3>>
    /\ again
    /\ first[2] # NoArray

\* the operands have the documented shapes (d,d,N) and (d,N)
MatvecPrecondition(M, v) ==
    /\ M.shape[1] = M.shape[2]
    /\ v.shape[1] = M.shape[1]
    /\ v.shape[2] = M.shape[3]

\* slot k of a batch, as a batch of block size 1
Slot3(M, k) ==
    [shape |-> <<M.shape[1], M.shape[2], 1>>,
     data |-> Stored([n \in 1..(M.shape[1] * M.shape[2]) |->
                  At(M, <<(n - 1) \div M.shape[2], (n - 1) % M.shape[2], k>>)])]
Slot2(v, k) ==
    [shape |-> <<v.shape[1], 1>>,
     data |-> Stored([n \in 1..v.shape[1] |-> At(v, <<n - 1, k>>)])]

\* C3: on operands of shapes (d,d,N) and (d,N), _batch_matvec returns the (d,N)
\* batch out[i,k] = sum_j matrices[i,j,k] * vectors[j,k], and slot k of the
\* result is what the call returns on slot k of the operands alone
MatvecPerSlot ==
    (call.op = "_batch_matvec" /\ MatvecPrecondition(call.args[1], call.args[2])) =>
        LET M == call.args[1]
            v == call.args[2]
            d == M.shape[1]
            N == M.shape[3]
            J == 0..(d - 1)
        IN /\ call.status = "ok"
           /\ call.out.shape = <<d, N>>
           /\ Len(call.out.data) = d * N
           /\ \A i \in 0..(d - 1), k \in 0..(N - 1) :
                 /\ At(call.out, <<i, k>>) =
                       SumOver(J, [j \in J |-> At(M, <<i, j, k>>) * At(v, <<j, k>>)])
                 /\ At(call.out, <<i, k>>) =
                       At(_batch_matvec(Slot3(M, k), Slot2(v, k)).out, <<i, 0>>)

MatvecWitness ==
    /\ call.op = "_batch_matvec"
    /\ call.args[1] = RampBatch(<<3, 3, 2>>, 0)
    /\ call.args[2] = RampBatch(<<3, 2>>, 1)
    /\ call.status = "ok"
    /\ \E i \in 0..2, k \in 0..1 : At(call.out, <<i, k>>) # 0

\* C4: on operands of shape (d,d,N), _batch_matmul returns the (d,d,N) batch
\* out[i,l,k] = sum_j A[i,j,k] * B[j,l,k]
MatmulPerSlot ==
    call.op = "_batch_matmul" =>
        LET A == call.args[1]
            B == call.args[2]
            d == A.shape[1]
            N == A.shape[3]
            J == 0..(d - 1)
        IN /\ call.status = "ok"
           /\ call.out.shape = <<d, d, N>>
           /\ Len(call.out.data) = d * d * N
           /\ \A i \in 0..(d - 1), l \in 0..(d - 1), k \in 0..(N - 1) :
                 At(call.out, <<i, l, k>>) =
                     SumOver(J, [j \in J |-> At(A, <<i, j, k>>) * At(B, <<j, l, k>>)])

MatmulWitness ==
    /\ call.op = "_batch_matmul"
    /\ call.args[1] = UnitBatch(<<2, 2, 1>>, <<0, 1, 0>>, 1)
    /\ call.args[2] = UnitBatch(<<2, 2, 1>>, <<1, 0, 0>>, 1)
    /\ call.out = UnitBatch(<<2, 2, 1>>, <<0, 0, 0>>, 1)

\* C5 as claimed: every _batch_matvec call whose operands violate the shape
\* precondition fails and returns nothing (stated for operands whose axes all
\* have size 2 or more, where no broadcasting takes part)
MatvecRejectsViolations ==
    (/\ call.op = "_batch_matvec"
     /\ \A a \in 1..3 : call.args[1].shape[a] >= 2
     /\ \A a \in 1..2 : call.args[2].shape[a] >= 2
     /\ ~MatvecPrecondition(call.args[1], call.args[2])) =>
        (call.status # "ok" /\ call.out = NoArray)

\* C5 amended: a _batch_matvec call on shapes (a,b,N1) and (c,N2) fails with
\* ValueError and no output exactly when b and c differ with neither equal to 1
\* or N1 and N2 differ with neither equal to 1; every other call, whatever a
\* is, returns a batch of shape (a, max(N1,N2))
MatvecFailsOnClash ==
    call.op = "_batch_matvec" =>
        LET M == call.args[1].shape
            v == call.args[2].shape
            clash(x, y) == x # y /\ x # 1 /\ y # 1
            fails == clash(M[2], v[1]) \/ clash(M[3], v[2])
        IN /\ fails => (call.status = "ValueError" /\ call.out = NoArray)
           /\ ~fails =>
                 /\ call.status = "ok"
                 /\ call.out.shape = <<M[1], IF M[3] > v[2] THEN M[3] ELSE v[2]>>

MatvecClashWitness ==
    /\ call.op = "_batch_matvec"
    /\ call.args[1].shape = <<3, 3, 5>>
    /\ call.args[2].shape = <<3, 4>>
    /\ call.status = "ValueError"

\* C9: for A, B of shape (d,d,N) and v of shape (d,N),
\* _batch_matvec(_batch_matmul(A,B), v) = _batch_matvec(A, _batch_matvec(B,v))
\* in every component and slot (compared for d up to MaxComposeDim and the
\* dense vector batches v)
Composable ==
    (call.op = "_batch_matmul" /\ call.args[1].shape[1] <= MaxComposeDim) =>
        LET A == call.args[1]
            B == call.args[2]
        IN \A v \in DenseBatches(<<A.shape[1], A.shape[3]>>) :
              LET left == _batch_matvec(call.out, v)
                  inner == _batch_matvec(B, v)
                  right == _batch_matvec(A, inner.out)
              IN left.status = "ok" /\ inner.status = "ok" /\ right.status = "ok"
                 /\ left.out = right.out

ComposableWitness ==
    /\ call.op = "_batch_matmul"
    /\ call.args[1] = UnitBatch(<<2, 2, 2>>, <<1, 0, 1>>, 1)
    /\ call.args[2] = RampBatch(<<2, 2, 2>>, 0)
    /\ call.out # _batch_matmul(call.args[2], call.args[1]).out
    /\ \E v \in DenseBatches(<<2, 2>>) :
          At(_batch_matvec(call.out, v).out, <<1, 1>>) # 0

\* C10: under every interleaving of concurrent levi_civita_tensor calls, the
\* cache holds at most one entry, every entry is the complete tensor of its
\* key, and every call returns the complete, correct tensor of the dimension
\* it asked for
ConcurrentCallsCorrect ==
    /\ Len(cache) <= 1
    /\ \A n \in 1..Len(cache) : IsLeviCivita(cache[n].result, cache[n].key)
    /\ \A t \in Threads : tpc[t] = "done" => IsLeviCivita(tret[t], targ[t])

\* two calls for different dimensions overlapped: thread 1 stored the tensor
\* of dimension 2 while thread 2 was building dimension 1, thread 2's store
\* then replaced the entry, and thread 1 still holds the whole 2-tensor
LastWriteWinsWitness ==
    /\ tpc[1] = "done" /\ targ[1] = 2 /\ overlapped[1]
    /\ tpc[2] = "done" /\ targ[2] = 1
    /\ Len(cache) = 1 /\ cache[1].key = 1
    /\ tret[1].data = <<0, 1, 0 - 1, 0>>
    /\ tret[2].data = <<1>>

====
